---- MODULE Spec2Model ----
(***************************************************************************)
(* Lifecycle of the plasma heat-transfer simulation.                       *)
(*                                                                         *)
(* The model follows backend/src/simulation/state.rs (SimulationState,     *)
(* SharedSimulationState and the worker thread spawned by run_simulation), *)
(* the main loop of HeatSolver::run in backend/src/simulation/solver.rs    *)
(* and the control entry points of backend/src/ffi/bindings.rs.            *)
(*                                                                         *)
(* The lifecycle mutex is std::sync::Mutex: not re-entrant, poisoned when  *)
(* a thread panics while holding a guard.  Every entry point holds the     *)
(* guard for its whole body, so an entry point is one atomic step that is  *)
(* enabled only while the mutex is free; a caller whose step is disabled   *)
(* is a caller blocked in lock().                                          *)
(***************************************************************************)
EXTENDS Integers, Sequences, FiniteSets, TLC

\* ------------------------------------------------------------------ bounds
\* number of worker threads the model lets run_simulation spawn
MaxWorkers == 2
\* largest time_steps value a lifecycle is constructed with
MaxSteps == 2
\* largest number of torches a parameter set holds
MaxTorches == 2

\* ------------------------------------------------------------ value spaces
Workers == 1..MaxWorkers
\* caller threads: c1 drives the control surface; c2 is a second thread that
\* only configures (add_torch, set_material) and stays idle in every
\* specification but ConfigSpec
Callers == {"c1", "c2"}
NoHolder == 0

NotStarted == "NotStarted"
Running == "Running"
Paused == "Paused"
Completed == "Completed"
Failed == "Failed"
SimulationStatus == {NotStarted, Running, Paused, Completed, Failed}

\* Option<T>: None is the empty sequence, Some(x) the one-element sequence
None == <<>>
Some(x) == <<x>>

\* progress is an f32 in the code; the model keeps the exact quotient as a
\* reduced fraction <<numerator, denominator>>
Zero == <<0, 1>>
One == <<1, 1>>

RECURSIVE Gcd(_, _)
Gcd(a, b) == IF b = 0 THEN a ELSE Gcd(b, a % b)

Frac(n, d) == LET g == Gcd(n, d) IN <<n \div g, d \div g>>

Leq(p, q) == p[1] * q[2] <= q[1] * p[2]

\* --------------------------------------------------------------- f64
\* An f64 is the pair <<n, d>> of a numerator and a denominator d >= 0 in
\* lowest terms: d > 0 is the finite value n / d, <<1, 0>> and <<-1, 0>> are
\* the two infinities and <<0, 0>> is NaN.  The operators follow IEEE 754
\* for the special values (x / 0, 0 / 0, inf - inf, 0 * inf, comparisons
\* with NaN); finite results are exact and the sign of a zero is not kept.
Abs(x) == IF x < 0 THEN -x ELSE x

Sign(x) == IF x > 0 THEN 1 ELSE IF x < 0 THEN -1 ELSE 0

NaN == <<0, 0>>

PosInf == <<1, 0>>

F(k) == <<k, 1>>

FNorm(n, d) ==
    IF d = 0 THEN <<Sign(n), 0>>
    ELSE LET g == Gcd(Abs(n), d) IN <<n \div g, d \div g>>

IsNaN(a) == a = NaN

IsFinite(a) == a[2] # 0

FAdd(a, b) ==
    IF a[2] = 0 /\ b[2] = 0 THEN (IF a = b THEN a ELSE NaN)
    ELSE FNorm(a[1] * b[2] + b[1] * a[2], a[2] * b[2])

FSub(a, b) == FAdd(a, <<-b[1], b[2]>>)

FMul(a, b) == FNorm(a[1] * b[1], a[2] * b[2])

FRecip(b) ==
    IF b[1] > 0 THEN <<b[2], b[1]>>
    ELSE IF b[1] < 0 THEN <<-b[2], -b[1]>>
    ELSE IF b[2] = 0 THEN NaN
    ELSE PosInf

FDiv(a, b) == FMul(a, FRecip(b))

\* a > b, false when either side is NaN
FGt(a, b) ==
    /\ ~IsNaN(a) /\ ~IsNaN(b)
    /\ IF a[2] = 0 /\ b[2] = 0 THEN a[1] > b[1]
       ELSE a[1] * b[2] > b[1] * a[2]

FLt(a, b) == FGt(b, a)

\* a >= b, false when either side is NaN
FGe(a, b) == ~IsNaN(a) /\ ~IsNaN(b) /\ ~FGt(b, a)

FLe(a, b) == FGe(b, a)

\* f64::min: the smaller operand, and the other operand when one is NaN
FMin(a, b) ==
    IF IsNaN(a) THEN b
    ELSE IF IsNaN(b) THEN a
    ELSE IF FGt(a, b) THEN b ELSE a

\* torches the boundary can hand over: the radius of the modelled cylinder is
\* 1 and its height 1, so r_position 2 lies outside the cylinder
TorchIds == {"t1"}
TorchInputs == [id : TorchIds, r_position : {F(0), F(2)}, z_position : {F(0)}]
Materials == {"steel", "custom"}

Ops == {"run", "pause", "resume", "get_state", "get_temperature_data",
        "add_torch", "set_material", "initialize", "destroy"}
ConfigOps == {"add_torch", "set_material"}

VARIABLES state, mutex, worker, callerPc, callerOp, callerParams, rc, seen,
          handle, cancel_requested, LAST_ERROR, buffer, ptr, solver

vars == <<state, mutex, worker, callerPc, callerOp, callerParams, rc, seen,
          handle, cancel_requested, LAST_ERROR, buffer, ptr, solver>>

\* ------------------------------------------------- SimulationParameters
\* SimulationParameters::new, with the scalars of the test's parameter set
NewParameters(torches, time_steps) ==
    [height |-> F(1), radius |-> F(1), nr |-> 10, nz |-> 20, ntheta |-> 12,
     torches |-> torches, material |-> "steel", material_zones |-> None,
     total_time |-> F(100), time_step |-> F(1), time_steps |-> time_steps,
     zone_map |-> None]

HasDuplicateId(torches) ==
    \E i, j \in 1..Len(torches) : i < j /\ torches[i].id = torches[j].id

\* zone_map.iter().max().unwrap_or(&0) of a zone map given as the sequence of
\* the zone indices of its cells
RECURSIVE MaxZone(_, _)
MaxZone(zone_map, n) ==
    IF n > Len(zone_map) THEN 0
    ELSE LET rest == MaxZone(zone_map, n + 1)
         IN IF zone_map[n] > rest THEN zone_map[n] ELSE rest

\* SimulationParameters::validate: the error message, or None when accepted;
\* the f64 comparisons are false on NaN
validate(p) ==
    IF FLe(p.height, F(0)) THEN Some("Altura deve ser positiva")
    ELSE IF FLe(p.radius, F(0)) THEN Some("Raio deve ser positivo")
    ELSE IF p.nr < 2 THEN Some("Numero de nos radiais deve ser pelo menos 2")
    ELSE IF p.nz < 2 THEN Some("Numero de nos axiais deve ser pelo menos 2")
    ELSE IF p.ntheta < 4 THEN Some("Numero de nos angulares deve ser pelo menos 4")
    ELSE IF Len(p.torches) = 0 THEN Some("Pelo menos uma tocha deve ser definida")
    ELSE IF FLe(p.time_step, F(0)) THEN Some("Passo de tempo deve ser positivo")
    ELSE IF FLe(p.total_time, F(0)) THEN Some("Tempo total deve ser positivo")
    ELSE IF \E i \in 1..Len(p.torches) :
                \/ FLt(p.torches[i].r_position, F(0))
                \/ FGt(p.torches[i].r_position, p.radius)
         THEN Some("Posicao radial da tocha fora dos limites")
    ELSE IF \E i \in 1..Len(p.torches) :
                \/ FLt(p.torches[i].z_position, F(0))
                \/ FGt(p.torches[i].z_position, p.height)
         THEN Some("Posicao axial da tocha fora dos limites")
    ELSE IF HasDuplicateId(p.torches) THEN Some("ID de tocha duplicado")
    ELSE IF /\ p.zone_map # None /\ p.material_zones # None
            /\ MaxZone(p.zone_map[1], 1) >= Len(p.material_zones[1])
         THEN Some("Zona de material nao definida")
    ELSE IF /\ p.zone_map # None /\ p.material_zones = None
            /\ \E n \in 1..Len(p.zone_map[1]) : p.zone_map[1][n] > 0
         THEN Some("Mapa de zonas definido, mas nenhuma zona de material configurada")
    ELSE None

\* ------------------------------------------------------ SimulationState
\* SimulationState::new
NewState(parameters) ==
    [parameters |-> parameters, status |-> NotStarted, progress |-> Zero,
     error_message |-> None, results |-> None, start_time |-> None]

Ok(s) == [ok |-> TRUE, state |-> s]
Err(s) == [ok |-> FALSE, state |-> s]

\* SimulationState::start
start(s) ==
    IF s.status = Running THEN Err(s)
    ELSE Ok([s EXCEPT !.status = Running, !.progress = Zero,
                      !.error_message = None, !.start_time = Some("Instant")])

\* pause() without its status check
pause_Unguarded(s) == Ok([s EXCEPT !.status = Paused])

\* SimulationState::pause
pause(s) ==
    IF s.status # Running THEN Err(s)
    ELSE Ok([s EXCEPT !.status = Paused])

\* resume() that rejects only NotStarted
resume_WeakGuard(s) ==
    IF s.status = NotStarted THEN Err(s)
    ELSE Ok([s EXCEPT !.status = Running])

\* SimulationState::resume
resume(s) ==
    IF s.status # Paused THEN Err(s)
    ELSE Ok([s EXCEPT !.status = Running])

\* SimulationState::update_progress
update_progress(s, p) == [s EXCEPT !.progress = p]

\* a complete() that stores the results without changing the status
complete_StatusKept(s, r) ==
    [s EXCEPT !.progress = One, !.results = Some(r)]

\* SimulationState::complete
complete(s, r) ==
    [s EXCEPT !.status = Completed, !.progress = One, !.results = Some(r)]

\* SimulationState::fail
fail(s, msg) == [s EXCEPT !.status = Failed, !.error_message = Some(msg)]

\* ------------------------------------------------------------ the mutex
Free == mutex.holder = NoHolder

\* lock() returns Ok(guard) on a free, unpoisoned mutex
LockOk == Free /\ ~mutex.poisoned

\* lock() returns Err(PoisonError) on a free, poisoned mutex
LockPoisoned == Free /\ mutex.poisoned

\* ---------------------------------------------------------------- Init
Unborn == [pc |-> "unborn", step |-> 0, params |-> None, history |-> <<>>]

Init ==
    /\ \E n \in 0..1, t \in TorchInputs, k \in 0..MaxSteps :
          state = NewState(NewParameters(IF n = 0 THEN <<>> ELSE <<t>>, k))
    /\ mutex = [holder |-> NoHolder, poisoned |-> FALSE]
    /\ worker = [w \in Workers |-> Unborn]
    /\ callerPc = [c \in Callers |-> "idle"]
    /\ callerOp = [c \in Callers |-> "none"]
    /\ callerParams = [c \in Callers |-> None]
    /\ rc = [c \in Callers |-> 0]
    /\ seen = [c \in Callers |-> None]
    /\ handle \in BOOLEAN
    /\ handle = FALSE => state.parameters = NewParameters(<<>>, 0)
    /\ cancel_requested = FALSE
    /\ LAST_ERROR = [c \in Callers |-> None]
    /\ buffer = [c \in Callers |-> None]
    /\ ptr = [c \in Callers |-> None]
    /\ solver = None

\* ------------------------------------------------------------ HeatSolver
\* SimulationResults built at the end of HeatSolver::run: the parameters the
\* solver owns and a temperature history allocated with time_steps + 1
\* slices; `temperature` lists, in the order they were written, the slice
\* indices the run has filled (slice 0 by HeatSolver::new, slice step + 1 by
\* iteration `step`)
SimulationResults(p, history) ==
    [parameters |-> p, slices |-> p.time_steps + 1, temperature |-> history]

\* progress reported after step `step` of HeatSolver::run
StepProgress(step, time_steps) == Frac(step + 1, time_steps)

\* the `for step in 0..time_steps` loop head: another iteration or the end
LoopHead(n, time_steps) == IF n < time_steps THEN "step" ELSE "exit"

\* -------------------------------------------------------- worker thread
\* HeatSolver::new fails validation: the worker marks the lifecycle Failed
WorkerNewErr(w) ==
    /\ worker[w].pc = "new"
    /\ validate(worker[w].params[1]) # None
    /\ Free
    /\ state' = IF mutex.poisoned THEN state
                ELSE fail(state, validate(worker[w].params[1])[1])
    /\ worker' = [worker EXCEPT ![w].pc = "done"]
    /\ UNCHANGED <<mutex, callerPc, callerOp, callerParams, rc, seen,
                   handle, cancel_requested, LAST_ERROR>>
    /\ UNCHANGED <<buffer, ptr, solver>>

\* HeatSolver::new succeeds: the worker enters HeatSolver::run
WorkerNewOk(w) ==
    /\ worker[w].pc = "new"
    /\ validate(worker[w].params[1]) = None
    /\ worker' = [worker EXCEPT
                    ![w].pc = LoopHead(0, worker[w].params[1].time_steps),
                    ![w].history = <<0>>]
    /\ UNCHANGED <<state, mutex, callerPc, callerOp, callerParams, rc, seen,
                   handle, cancel_requested, LAST_ERROR>>
    /\ UNCHANGED <<buffer, ptr, solver>>

\* one iteration of the loop up to the progress report: sources, time step,
\* phase fractions and the history slice step + 1, all private to the worker
WorkerStep(w) ==
    /\ worker[w].pc = "step"
    /\ worker' = [worker EXCEPT
                    ![w].pc = "callback",
                    ![w].history = Append(@, worker[w].step + 1)]
    /\ UNCHANGED <<state, mutex, callerPc, callerOp, callerParams, rc, seen,
                   handle, cancel_requested, LAST_ERROR>>
    /\ UNCHANGED <<buffer, ptr, solver>>

\* progress_callback: lock, update_progress, and on Paused keep the guard and
\* go on to lock the same mutex again
WorkerCallback(w) ==
    LET n == worker[w].step
        N == worker[w].params[1].time_steps
        next == [worker EXCEPT ![w].step = n + 1, ![w].pc = LoopHead(n + 1, N)]
    IN
    /\ worker[w].pc = "callback"
    /\ Free
    /\ IF mutex.poisoned
       THEN /\ worker' = next
            /\ UNCHANGED <<state, mutex>>
       ELSE /\ state' = update_progress(state, StepProgress(n, N))
            /\ IF state.status = Paused
               THEN /\ mutex' = [mutex EXCEPT !.holder = w]
                    /\ worker' = [worker EXCEPT ![w].pc = "relock"]
               ELSE /\ worker' = next
                    /\ UNCHANGED mutex
    /\ UNCHANGED <<callerPc, callerOp, callerParams, rc, seen,
                   handle, cancel_requested, LAST_ERROR>>
    /\ UNCHANGED <<buffer, ptr, solver>>

\* the inner state_clone.lock() on a mutex this thread already holds: the
\* standard library leaves the outcome unspecified (it never returns: the
\* thread deadlocks or panics).  Outcome one: the thread blocks forever and
\* keeps the guard.
WorkerRelockDeadlock(w) ==
    /\ worker[w].pc = "relock"
    /\ worker' = [worker EXCEPT ![w].pc = "deadlocked"]
    /\ UNCHANGED <<state, mutex, callerPc, callerOp, callerParams, rc, seen,
                   handle, cancel_requested, LAST_ERROR>>
    /\ UNCHANGED <<buffer, ptr, solver>>

\* Outcome two: the thread panics; unwinding drops the outer guard, which
\* poisons and releases the mutex, and the worker thread ends.
WorkerRelockPanic(w) ==
    /\ worker[w].pc = "relock"
    /\ worker' = [worker EXCEPT ![w].pc = "panicked"]
    /\ mutex' = [holder |-> NoHolder, poisoned |-> TRUE]
    /\ UNCHANGED <<state, callerPc, callerOp, callerParams, rc, seen,
                   handle, cancel_requested, LAST_ERROR>>
    /\ UNCHANGED <<buffer, ptr, solver>>

\* after solver.run returned Ok(results): lock and complete(results)
WorkerExit(w) ==
    /\ worker[w].pc = "exit"
    /\ Free
    /\ state' = IF mutex.poisoned THEN state
                ELSE complete(state, SimulationResults(worker[w].params[1],
                                                      worker[w].history))
    /\ worker' = [worker EXCEPT ![w].pc = "done"]
    /\ UNCHANGED <<mutex, callerPc, callerOp, callerParams, rc, seen,
                   handle, cancel_requested, LAST_ERROR>>
    /\ UNCHANGED <<buffer, ptr, solver>>

WorkerNext(w) ==
    \/ WorkerNewErr(w)
    \/ WorkerNewOk(w)
    \/ WorkerStep(w)
    \/ WorkerCallback(w)
    \/ WorkerRelockDeadlock(w)
    \/ WorkerRelockPanic(w)
    \/ WorkerExit(w)

\* ---------------------------------------------------------- caller side
\* the entry point returns `code` to caller c without touching LAST_ERROR
Return(c, code) ==
    /\ rc' = [rc EXCEPT ![c] = code]
    /\ callerPc' = [callerPc EXCEPT ![c] = "idle"]

\* a successful return
Succeed(c, code) ==
    /\ Return(c, code)
    /\ UNCHANGED LAST_ERROR

\* set_last_ffi_error(msg) followed by the return of a failure code
Fail(c, code, msg) ==
    /\ Return(c, code)
    /\ LAST_ERROR' = [LAST_ERROR EXCEPT ![c] = Some(msg)]

Spawned == {w \in Workers : worker[w].pc # "unborn"}
PendingRuns == {c \in Callers : callerPc[c] # "idle" /\ callerOp[c] = "run"}
PendingAdds == {c \in Callers : callerPc[c] # "idle" /\ callerOp[c] = "add_torch"}

\* a caller thread enters an entry point; from here on it is inside the call
\* until the entry point returns
Call(c, op) ==
    /\ callerPc[c] = "idle"
    /\ op = "run" => Cardinality(Spawned) + Cardinality(PendingRuns) < MaxWorkers
    /\ op = "add_torch" =>
          Len(state.parameters.torches) + Cardinality(PendingAdds) < MaxTorches
    /\ callerPc' = [callerPc EXCEPT ![c] = "called"]
    /\ callerOp' = [callerOp EXCEPT ![c] = op]
    /\ UNCHANGED <<state, mutex, worker, callerParams, rc, seen,
                   handle, cancel_requested, LAST_ERROR>>
    /\ UNCHANGED <<buffer, ptr, solver>>

\* a boundary record whose scalars are all valid
ValidScalars ==
    [height |-> F(1), radius |-> F(1), nr |-> 10, nz |-> 20,
     total_time |-> F(100), time_step |-> F(1), time_steps |-> MaxSteps]

\* records the boundary hands to initialize_simulation: a null pointer, a
\* record with valid scalars and a record with a single radial node
FFIParameterInputs ==
    {None, Some(ValidScalars), Some([ValidScalars EXCEPT !.nr = 1])}

\* width of usize in the model: the i32 counts of the boundary record are
\* small, so 16 bits keep the wrap-around of a negative count
UsizeBits == 16

\* `x as usize` on an i32: the two's-complement value modulo 2^UsizeBits
AsUsize(x) == x % (2 ^ UsizeBits)

\* convert_ffi_parameters: SimulationParameters::new and the copied scalars,
\* the counts cast with `as usize`; the torch list stays empty
convert_ffi_parameters(f) ==
    [NewParameters(<<>>, AsUsize(f.time_steps)) EXCEPT
        !.height = f.height, !.radius = f.radius,
        !.nr = AsUsize(f.nr), !.nz = AsUsize(f.nz),
        !.total_time = f.total_time, !.time_step = f.time_step]

\* initialize_simulation without the check for an existing handle
InitializeSimulationWith_NoHandleCheck(c, ffi_params) ==
    /\ callerPc[c] = "called" /\ callerOp[c] = "initialize"
    /\ IF ffi_params = None
       THEN /\ Fail(c, -1, "initialize_simulation: ffi_params pointer was null")
            /\ UNCHANGED <<state, handle>>
       ELSE IF validate(convert_ffi_parameters(ffi_params[1])) # None
       THEN /\ Fail(c, -3, "Invalid simulation parameters")
            /\ UNCHANGED <<state, handle>>
       ELSE /\ state' = NewState(convert_ffi_parameters(ffi_params[1]))
            /\ handle' = TRUE
            /\ Succeed(c, 0)
    /\ UNCHANGED <<mutex, worker, callerOp, callerParams, seen, cancel_requested>>
    /\ UNCHANGED <<buffer, ptr, solver>>

\* initialize_simulation called with the record ffi_params
InitializeSimulationWith(c, ffi_params) ==
    /\ callerPc[c] = "called" /\ callerOp[c] = "initialize"
    /\ IF ffi_params = None
       THEN /\ Fail(c, -1, "initialize_simulation: ffi_params pointer was null")
            /\ UNCHANGED <<state, handle>>
       ELSE IF handle
       THEN /\ Fail(c, -2, "Simulation already initialized. Call destroy_simulation first.")
            /\ UNCHANGED <<state, handle>>
       ELSE IF validate(convert_ffi_parameters(ffi_params[1])) # None
       THEN /\ Fail(c, -3, "Invalid simulation parameters")
            /\ UNCHANGED <<state, handle>>
       ELSE /\ state' = NewState(convert_ffi_parameters(ffi_params[1]))
            /\ handle' = TRUE
            /\ Succeed(c, 0)
    /\ UNCHANGED <<mutex, worker, callerOp, callerParams, seen, cancel_requested>>
    /\ UNCHANGED <<buffer, ptr, solver>>

\* initialize_simulation
InitializeSimulation(c) ==
    \E ffi_params \in FFIParameterInputs : InitializeSimulationWith(c, ffi_params)

\* run_simulation up to the end of the first critical section of
\* SharedSimulationState::run_simulation: clone the parameters
RunSimulationClone(c) ==
    /\ callerPc[c] = "called" /\ callerOp[c] = "run"
    /\ IF ~handle
       THEN /\ Fail(c, -1, "Simulation not initialized. Call initialize_simulation first.")
            /\ UNCHANGED callerParams
       ELSE /\ Free
            /\ IF mutex.poisoned
               THEN /\ Fail(c, -2, "Failed to start simulation")
                    /\ UNCHANGED callerParams
               ELSE /\ callerParams' =
                          [callerParams EXCEPT ![c] = Some(state.parameters)]
                    /\ callerPc' = [callerPc EXCEPT ![c] = "start"]
                    /\ UNCHANGED <<rc, LAST_ERROR>>
    /\ UNCHANGED <<state, mutex, worker, callerOp, seen, handle, cancel_requested>>
    /\ UNCHANGED <<buffer, ptr, solver>>

\* run_simulation, second critical section and spawn: start(), then the
\* worker thread is created with the cloned parameters
RunSimulationStart(c) ==
    /\ callerPc[c] = "start" /\ callerOp[c] = "run"
    /\ Free
    /\ IF mutex.poisoned \/ ~start(state).ok
       THEN /\ Fail(c, -2, "Failed to start simulation")
            /\ UNCHANGED <<state, worker>>
       ELSE /\ state' = start(state).state
            /\ LET w == CHOOSE v \in Workers :
                            /\ worker[v].pc = "unborn"
                            /\ \A u \in Workers : worker[u].pc = "unborn" => v <= u
               IN worker' = [worker EXCEPT
                               ![w] = [pc |-> "new", step |-> 0,
                                       params |-> callerParams[c],
                                       history |-> <<>>]]
            /\ Succeed(c, 0)
    /\ callerParams' = [callerParams EXCEPT ![c] = None]
    /\ UNCHANGED <<mutex, callerOp, seen, handle, cancel_requested>>
    /\ UNCHANGED <<buffer, ptr, solver>>

\* pause_simulation
PauseSimulation(c) ==
    /\ callerPc[c] = "called" /\ callerOp[c] = "pause"
    /\ IF ~handle
       THEN /\ Fail(c, -1, "Simulation not initialized.")
            /\ UNCHANGED state
       ELSE /\ Free
            /\ IF mutex.poisoned
               THEN /\ Fail(c, -2, "Mutex poisoned while pausing simulation")
                    /\ UNCHANGED state
               ELSE IF pause(state).ok
               THEN /\ state' = pause(state).state
                    /\ Succeed(c, 0)
               ELSE /\ Fail(c, -3, "Failed to pause simulation")
                    /\ UNCHANGED state
    /\ UNCHANGED <<mutex, worker, callerOp, callerParams, seen,
                   handle, cancel_requested>>
    /\ UNCHANGED <<buffer, ptr, solver>>

\* resume_simulation
ResumeSimulation(c) ==
    /\ callerPc[c] = "called" /\ callerOp[c] = "resume"
    /\ IF ~handle
       THEN /\ Fail(c, -1, "Simulation not initialized.")
            /\ UNCHANGED state
       ELSE /\ Free
            /\ IF mutex.poisoned
               THEN /\ Fail(c, -2, "Mutex poisoned while resuming simulation")
                    /\ UNCHANGED state
               ELSE IF resume(state).ok
               THEN /\ state' = resume(state).state
                    /\ Succeed(c, 0)
               ELSE /\ Fail(c, -3, "Failed to resume simulation")
                    /\ UNCHANGED state
    /\ UNCHANGED <<mutex, worker, callerOp, callerParams, seen,
                   handle, cancel_requested>>
    /\ UNCHANGED <<buffer, ptr, solver>>

\* convert_simulation_state: the flat record handed to the caller
convert_simulation_state(s) ==
    [status |-> s.status, progress |-> s.progress,
     error_message |-> s.error_message]

\* get_simulation_state over SharedSimulationState::get_state
GetSimulationState(c) ==
    /\ callerPc[c] = "called" /\ callerOp[c] = "get_state"
    /\ IF ~handle
       THEN /\ Fail(c, -2, "Simulation not initialized.")
            /\ UNCHANGED seen
       ELSE /\ Free
            /\ IF mutex.poisoned
               THEN /\ Fail(c, -3, "Failed to get simulation state")
                    /\ UNCHANGED seen
               ELSE /\ seen' = [seen EXCEPT
                                  ![c] = Some(convert_simulation_state(state))]
                    /\ Succeed(c, 0)
    /\ UNCHANGED <<state, mutex, worker, callerOp, callerParams,
                   handle, cancel_requested>>
    /\ UNCHANGED <<buffer, ptr, solver>>

\* add_plasma_torch without the NotStarted check
AddPlasmaTorch_NoStatusCheck(c) ==
    /\ callerPc[c] = "called" /\ callerOp[c] = "add_torch"
    /\ IF ~handle
       THEN /\ Fail(c, -2, "Simulation not initialized. Call initialize_simulation first.")
            /\ UNCHANGED state
       ELSE /\ Free
            /\ \E torch \in TorchInputs :
                  IF mutex.poisoned
                  THEN /\ Fail(c, -4, "Mutex poisoned while adding torch")
                       /\ UNCHANGED state
                  ELSE /\ state' = [state EXCEPT
                                      !.parameters.torches = Append(@, torch)]
                       /\ Succeed(c, 0)
    /\ UNCHANGED <<mutex, worker, callerOp, callerParams, seen,
                   handle, cancel_requested>>
    /\ UNCHANGED <<buffer, ptr, solver>>

\* add_plasma_torch
AddPlasmaTorchWith(c, torch) ==
    /\ callerPc[c] = "called" /\ callerOp[c] = "add_torch"
    /\ IF ~handle
       THEN /\ Fail(c, -2, "Simulation not initialized. Call initialize_simulation first.")
            /\ UNCHANGED state
       ELSE /\ Free
            /\ IF mutex.poisoned
               THEN /\ Fail(c, -4, "Mutex poisoned while adding torch")
                    /\ UNCHANGED state
               ELSE IF state.status # NotStarted
               THEN /\ Fail(c, -3, "Cannot add torch to a running or completed simulation.")
                    /\ UNCHANGED state
               ELSE /\ state' = [state EXCEPT
                                   !.parameters.torches = Append(@, torch)]
                    /\ Succeed(c, 0)
    /\ UNCHANGED <<mutex, worker, callerOp, callerParams, seen,
                   handle, cancel_requested>>
    /\ UNCHANGED <<buffer, ptr, solver>>

\* add_plasma_torch with a non-null torch
AddPlasmaTorch(c) ==
    \E torch \in TorchInputs : AddPlasmaTorchWith(c, torch)

\* set_material_properties
SetMaterialProperties(c) ==
    /\ callerPc[c] = "called" /\ callerOp[c] = "set_material"
    /\ IF ~handle
       THEN /\ Fail(c, -2, "Simulation not initialized. Call initialize_simulation first.")
            /\ UNCHANGED state
       ELSE /\ Free
            /\ \E material \in Materials :
                  IF mutex.poisoned
                  THEN /\ Fail(c, -4, "Mutex poisoned while setting material")
                       /\ UNCHANGED state
                  ELSE IF state.status # NotStarted
                  THEN /\ Fail(c, -3, "Cannot set material properties for a running or completed simulation.")
                       /\ UNCHANGED state
                  ELSE /\ state' = [state EXCEPT !.parameters.material = material]
                       /\ Succeed(c, 0)
    /\ UNCHANGED <<mutex, worker, callerOp, callerParams, seen,
                   handle, cancel_requested>>
    /\ UNCHANGED <<buffer, ptr, solver>>

\* a get_temperature_data that does not check the step against the history
TemperatureDataCode_NoStepCheck(s, time_step, buffer_size) ==
    IF s.status # Completed \/ s.results = None THEN -4
    ELSE IF buffer_size < s.parameters.nr * s.parameters.nz THEN -6
    ELSE s.parameters.nr * s.parameters.nz

\* return code of get_temperature_data once the guard is held
TemperatureDataCode(s, time_step, buffer_size) ==
    IF s.status # Completed \/ s.results = None THEN -4
    ELSE IF s.parameters.time_steps # s.results[1].slices THEN -9
    ELSE IF time_step < 0 \/ time_step >= s.parameters.time_steps THEN -3
    ELSE IF buffer_size < s.parameters.nr * s.parameters.nz THEN -6
    ELSE s.parameters.nr * s.parameters.nz

\* the message get_temperature_data stores with each failure code
TemperatureDataMessage(code) ==
    CASE code = -4 -> "Simulation results not available (simulation not completed or no results stored)."
      [] code = -9 -> "Internal error: Mismatch between params.time_steps and results.temperature shape"
      [] code = -3 -> "Invalid time step index"
      [] code = -6 -> "Buffer too small"
      [] OTHER -> "Mutex poisoned while getting temperature data"

\* results.temperature.slice(s![.., .., time_step]): the slice of the stored
\* history at index time_step, named by the slice index the solver wrote
\* there; -1 stands for an index the history does not hold
HistorySlice(s, time_step) ==
    IF s.results # None /\ (time_step + 1) \in DOMAIN s.results[1].temperature
    THEN s.results[1].temperature[time_step + 1]
    ELSE -1

\* get_temperature_data(time_step, buffer, buffer_size) with a non-null
\* buffer: every failure stores a message and leaves the buffer alone, the
\* success path copies the nr * nz values of the slice into the buffer
GetTemperatureDataWith(c, time_step, buffer_size) ==
    /\ callerPc[c] = "called" /\ callerOp[c] = "get_temperature_data"
    /\ IF ~handle
       THEN /\ Fail(c, -2, "Simulation not initialized.")
            /\ UNCHANGED buffer
       ELSE /\ Free
            /\ LET code == IF mutex.poisoned THEN -5
                           ELSE TemperatureDataCode(state, time_step,
                                                    buffer_size)
               IN IF code < 0
                  THEN /\ Fail(c, code, TemperatureDataMessage(code))
                       /\ UNCHANGED buffer
                  ELSE /\ Succeed(c, code)
                       /\ buffer' = [buffer EXCEPT
                               ![c] = Some(HistorySlice(state, time_step))]
    /\ UNCHANGED <<state, mutex, worker, callerOp, callerParams, seen,
                   handle, cancel_requested>>
    /\ UNCHANGED <<ptr, solver>>

\* the time_step and buffer_size arguments a caller passes
TimeStepInputs == -1..(MaxSteps + 1)

BufferSizeInputs == {0, 200}

\* get_temperature_data
GetTemperatureData(c) ==
    \E time_step \in TimeStepInputs, buffer_size \in BufferSizeInputs :
        GetTemperatureDataWith(c, time_step, buffer_size)

\* get_last_error: take the thread's LAST_ERROR message; when there is none,
\* fall back to a copy of the error_message of the lifecycle, read through
\* get_state (which fails on a poisoned mutex); null otherwise
GetLastError(c) ==
    /\ callerPc[c] = "called" /\ callerOp[c] = "get_last_error"
    /\ IF LAST_ERROR[c] # None
       THEN /\ ptr' = [ptr EXCEPT ![c] = LAST_ERROR[c]]
            /\ LAST_ERROR' = [LAST_ERROR EXCEPT ![c] = None]
       ELSE /\ UNCHANGED LAST_ERROR
            /\ IF handle
               THEN /\ Free
                    /\ ptr' = [ptr EXCEPT ![c] = IF mutex.poisoned THEN None
                                                 ELSE state.error_message]
               ELSE ptr' = [ptr EXCEPT ![c] = None]
    /\ callerPc' = [callerPc EXCEPT ![c] = "idle"]
    /\ UNCHANGED <<state, mutex, worker, callerOp, callerParams, rc, seen,
                   handle, cancel_requested, buffer, solver>>

\* the id argument of get_formula_json: a null pointer, a string that is not
\* UTF-8, or a valid string
FormulaIdInputs == {"null", "invalid_utf8", "valid"}

\* the arms of the match on formulas::get_by_id and on the serialisation of
\* the formula it found
FormulaLookups == {"found", "found_unserializable", "not_found", "error"}

\* the messages get_formula_json stores
FormulaJsonMessages ==
    {"Invalid UTF-8 in id string", "Failed to serialize formula to JSON",
     "Failed to get formula by ID"}

\* get_formula_json(id)
GetFormulaJsonWith(c, id, lookup) ==
    /\ callerPc[c] = "called" /\ callerOp[c] = "get_formula_json"
    /\ IF id = "null"
       THEN /\ ptr' = [ptr EXCEPT ![c] = None]
            /\ UNCHANGED LAST_ERROR
       ELSE IF id = "invalid_utf8"
       THEN /\ ptr' = [ptr EXCEPT ![c] = None]
            /\ LAST_ERROR' = [LAST_ERROR EXCEPT
                                ![c] = Some("Invalid UTF-8 in id string")]
       ELSE CASE lookup = "found" ->
                   /\ ptr' = [ptr EXCEPT ![c] = Some("formula json")]
                   /\ UNCHANGED LAST_ERROR
              [] lookup = "found_unserializable" ->
                   /\ ptr' = [ptr EXCEPT ![c] = None]
                   /\ LAST_ERROR' = [LAST_ERROR EXCEPT
                          ![c] = Some("Failed to serialize formula to JSON")]
              [] lookup = "not_found" ->
                   /\ ptr' = [ptr EXCEPT ![c] = None]
                   /\ UNCHANGED LAST_ERROR
              [] OTHER ->
                   /\ ptr' = [ptr EXCEPT ![c] = None]
                   /\ LAST_ERROR' = [LAST_ERROR EXCEPT
                          ![c] = Some("Failed to get formula by ID")]
    /\ callerPc' = [callerPc EXCEPT ![c] = "idle"]
    /\ UNCHANGED <<state, mutex, worker, callerOp, callerParams, rc, seen,
                   handle, cancel_requested, buffer, solver>>

GetFormulaJson(c) ==
    \E id \in FormulaIdInputs, lookup \in FormulaLookups :
        GetFormulaJsonWith(c, id, lookup)

\* request_cancellation: latch the cancellation flag of the lifecycle
request_cancellation ==
    cancel_requested' = TRUE

\* a join that waits for no thread
Unjoined_Nothing == {}

\* the worker threads join_simulation_thread has to wait for
Unjoined == {w \in Workers : worker[w].pc \notin {"unborn", "done", "panicked"}}

\* outcome of join_simulation_thread once every worker thread has ended:
\* Err when a worker panicked, Ok(true) when one was joined, Ok(false) when
\* none was ever spawned
join_simulation_thread ==
    IF \E w \in Workers : worker[w].pc = "panicked" THEN [ok |-> FALSE, joined |-> FALSE]
    ELSE [ok |-> TRUE, joined |-> Spawned # {}]

\* destroy_simulation, second half: block in join_simulation_thread until
\* the worker threads have ended, then map the outcome to a return code
DestroyJoin(c) ==
    /\ callerPc[c] = "join" /\ callerOp[c] = "destroy"
    /\ Unjoined = {}
    /\ IF join_simulation_thread.ok
       THEN Succeed(c, 0)
       ELSE Fail(c, -3, "Error during simulation cleanup")
    /\ UNCHANGED <<state, mutex, worker, callerOp, callerParams, seen,
                   handle, cancel_requested>>
    /\ UNCHANGED <<buffer, ptr, solver>>

\* destroy_simulation that leaves the handle in place
DestroyTake_KeepHandle(c) ==
    /\ callerPc[c] = "called" /\ callerOp[c] = "destroy"
    /\ IF ~handle
       THEN /\ Fail(c, -1, "Simulation already destroyed or never initialized.")
            /\ UNCHANGED <<handle, cancel_requested>>
       ELSE /\ UNCHANGED handle
            /\ request_cancellation
            /\ callerPc' = [callerPc EXCEPT ![c] = "join"]
            /\ UNCHANGED <<rc, LAST_ERROR>>
    /\ UNCHANGED <<state, mutex, worker, callerOp, callerParams, seen>>
    /\ UNCHANGED <<buffer, ptr, solver>>

\* destroy_simulation, first half: take the handle out of SIMULATION_STATE
\* and request cancellation
DestroyTake(c) ==
    /\ callerPc[c] = "called" /\ callerOp[c] = "destroy"
    /\ IF ~handle
       THEN /\ Fail(c, -1, "Simulation already destroyed or never initialized.")
            /\ UNCHANGED <<handle, cancel_requested>>
       ELSE /\ handle' = FALSE
            /\ request_cancellation
            /\ callerPc' = [callerPc EXCEPT ![c] = "join"]
            /\ UNCHANGED <<rc, LAST_ERROR>>
    /\ UNCHANGED <<state, mutex, worker, callerOp, callerParams, seen>>
    /\ UNCHANGED <<buffer, ptr, solver>>

\* the steps of a thread that drives the whole control surface
CallerNext(c) ==
    \/ \E op \in Ops : Call(c, op)
    \/ InitializeSimulation(c)
    \/ RunSimulationClone(c)
    \/ RunSimulationStart(c)
    \/ PauseSimulation(c)
    \/ ResumeSimulation(c)
    \/ GetSimulationState(c)
    \/ AddPlasmaTorch(c)
    \/ SetMaterialProperties(c)
    \/ GetTemperatureData(c)
    \/ DestroyTake(c)
    \/ DestroyJoin(c)

\* the steps of a thread that only configures the lifecycle
ConfigNext(c) ==
    \/ \E op \in ConfigOps : Call(c, op)
    \/ AddPlasmaTorch(c)
    \/ SetMaterialProperties(c)

Next ==
    \/ \E w \in Workers : WorkerNext(w)
    \/ CallerNext("c1")

Spec == Init /\ [][Next]_vars

\* the steps of a thread that only starts the run
StartNext(c) ==
    \/ Call(c, "run")
    \/ RunSimulationClone(c)
    \/ RunSimulationStart(c)

\* the steps of a worker whose run is never paused
UnpausedWorkerNext(w) ==
    \/ WorkerNewErr(w)
    \/ WorkerNewOk(w)
    \/ WorkerStep(w)
    \/ WorkerCallback(w)
    \/ WorkerExit(w)

\* one thread starts the run while a second thread configures the lifecycle
ConfigSpec ==
    Init /\ [][\/ \E w \in Workers : UnpausedWorkerNext(w)
               \/ StartNext("c1")
               \/ ConfigNext("c2")]_vars

\* ------------------------------------------------- parameter validation
\* torch lists of a parameter set: empty, one torch inside the cylinder, two
\* torches with different ids, the same torch twice, and a torch whose
\* position is outside the cylinder or NaN
InsideTorch == [id |-> "t1", r_position |-> F(0), z_position |-> F(0)]

TorchListInputs ==
    {<<>>, <<InsideTorch>>, <<InsideTorch, [InsideTorch EXCEPT !.id = "t2"]>>,
     <<InsideTorch, InsideTorch>>,
     <<[InsideTorch EXCEPT !.r_position = F(2)]>>,
     <<[InsideTorch EXCEPT !.z_position = F(-1)]>>,
     <<[InsideTorch EXCEPT !.r_position = NaN]>>}

\* parameter sets built through the public fields of SimulationParameters;
\* set_zone_map gives a zone map the shape of the mesh
ParameterInputs ==
    {p \in [height : {F(-1), F(1), NaN}, radius : {F(0), F(1)},
            nr : {1, 2}, nz : {1, 2}, ntheta : {3, 4},
            torches : TorchListInputs, material : {"steel"},
            material_zones : {None, Some(<<>>), Some(<<"zone0">>)},
            total_time : {F(0), F(100)}, time_step : {F(0), F(1)},
            time_steps : {1},
            zone_map : {None, Some(<<0, 0, 0, 0>>), Some(<<0, 1, 0, 0>>)}] :
        p.zone_map # None => Len(p.zone_map[1]) = p.nr * p.nz}

\* boundary records whose counts are negative, zero or positive
FFICountInputs ==
    [height : {F(1)}, radius : {F(1)}, nr : {-1, 0, 10}, nz : {-1, 0, 20},
     total_time : {F(100)}, time_step : {F(1)}, time_steps : {-1, 0, MaxSteps}]

\* the parameters convert_ffi_parameters builds from boundary record f, with
\* the torch list `torches` added by add_torch
ConvertedParameters(f, torches) ==
    [convert_ffi_parameters(f) EXCEPT !.torches = torches]

\* a lifecycle created on parameters p whose run() has just spawned the
\* worker: the worker is about to call HeatSolver::new, which validates p
ParamInit ==
    /\ \E p \in ParameterInputs
                \cup {ConvertedParameters(f, <<InsideTorch>>) :
                         f \in FFICountInputs} :
          /\ state = start(NewState(p)).state
          /\ worker = [w \in Workers |->
                          IF w = 1 THEN [pc |-> "new", step |-> 0,
                                         params |-> Some(p), history |-> <<>>]
                          ELSE Unborn]
    /\ mutex = [holder |-> NoHolder, poisoned |-> FALSE]
    /\ callerPc = [c \in Callers |-> "idle"]
    /\ callerOp = [c \in Callers |-> "none"]
    /\ callerParams = [c \in Callers |-> None]
    /\ rc = [c \in Callers |-> 0]
    /\ seen = [c \in Callers |-> None]
    /\ handle = TRUE
    /\ cancel_requested = FALSE
    /\ LAST_ERROR = [c \in Callers |-> None]
    /\ buffer = [c \in Callers |-> None]
    /\ ptr = [c \in Callers |-> None]
    /\ solver = None

\* the worker's HeatSolver::new on each of these parameter sets
ParamSpec ==
    ParamInit /\ [][\E w \in Workers : WorkerNewErr(w) \/ WorkerNewOk(w)]_vars

\* ------------------------------------------- concurrent initialize_simulation
\* initialize_simulation holds no lock, so its accesses to the static
\* SIMULATION_STATE are separate steps of the calling thread.  First step:
\* the null check and the read `SIMULATION_STATE.is_some()`; a call that
\* passes keeps the record it was given
InitializeSimulationCheckWith(c, ffi_params) ==
    /\ callerPc[c] = "called" /\ callerOp[c] = "initialize"
    /\ IF ffi_params = None
       THEN /\ Fail(c, -1, "initialize_simulation: ffi_params pointer was null")
            /\ UNCHANGED callerParams
       ELSE IF handle
       THEN /\ Fail(c, -2, "Simulation already initialized. Call destroy_simulation first.")
            /\ UNCHANGED callerParams
       ELSE /\ callerPc' = [callerPc EXCEPT ![c] = "checked"]
            /\ callerParams' = [callerParams EXCEPT ![c] = ffi_params]
            /\ UNCHANGED <<rc, LAST_ERROR>>
    /\ UNCHANGED <<state, mutex, worker, callerOp, seen, handle, cancel_requested>>
    /\ UNCHANGED <<buffer, ptr, solver>>

InitializeSimulationCheck(c) ==
    \E ffi_params \in FFIParameterInputs : InitializeSimulationCheckWith(c, ffi_params)

\* second step: convert and validate the record, then the write
\* `SIMULATION_STATE = Some(SharedSimulationState::new(params))`, whatever
\* the static holds by now
InitializeSimulationInstall(c) ==
    /\ callerPc[c] = "checked" /\ callerOp[c] = "initialize"
    /\ IF validate(convert_ffi_parameters(callerParams[c][1])) # None
       THEN /\ Fail(c, -3, "Invalid simulation parameters")
            /\ UNCHANGED <<state, handle>>
       ELSE /\ state' = NewState(convert_ffi_parameters(callerParams[c][1]))
            /\ handle' = TRUE
            /\ Succeed(c, 0)
    /\ callerParams' = [callerParams EXCEPT ![c] = None]
    /\ UNCHANGED <<mutex, worker, callerOp, seen, cancel_requested>>
    /\ UNCHANGED <<buffer, ptr, solver>>

\* the steps of a thread that creates and destroys the lifecycle
InitNext(c) ==
    \/ Call(c, "initialize")
    \/ Call(c, "destroy")
    \/ InitializeSimulationCheck(c)
    \/ InitializeSimulationInstall(c)
    \/ DestroyTake(c)
    \/ DestroyJoin(c)

\* two threads call initialize_simulation and destroy_simulation
InitSpec == Init /\ [][\E c \in Callers : InitNext(c)]_vars

\* the operations of a thread that drives a run, polls the lifecycle and
\* reads the error channel
ErrorOps == {"run", "pause", "resume", "add_torch", "set_material",
             "get_state", "get_last_error", "get_formula_json"}

ErrorNext(c) ==
    \/ \E op \in ErrorOps : Call(c, op)
    \/ RunSimulationClone(c)
    \/ RunSimulationStart(c)
    \/ PauseSimulation(c)
    \/ ResumeSimulation(c)
    \/ AddPlasmaTorch(c)
    \/ SetMaterialProperties(c)
    \/ GetSimulationState(c)
    \/ GetLastError(c)
    \/ GetFormulaJson(c)

ErrorSpec ==
    Init /\ [][\/ \E w \in Workers : WorkerNext(w)
               \/ ErrorNext("c1")]_vars

\* the same two threads with a worker that is scheduled whenever it can take
\* a step; nothing in this specification pauses or destroys the lifecycle
FairRunSpec ==
    /\ ConfigSpec
    /\ \A w \in Workers : WF_vars(UnpausedWorkerNext(w))

\* Scheduling: every thread that can take a step eventually takes it.  A
\* worker never waits for anything but the mutex, and a caller inside an entry
\* point never waits for anything but the mutex or, in destroy, the end of the
\* worker; callers are free never to call again.
CallerReturns(c) ==
    \/ InitializeSimulation(c)
    \/ RunSimulationClone(c)
    \/ RunSimulationStart(c)
    \/ PauseSimulation(c)
    \/ ResumeSimulation(c)
    \/ GetSimulationState(c)
    \/ AddPlasmaTorch(c)
    \/ SetMaterialProperties(c)
    \/ GetTemperatureData(c)
    \/ DestroyTake(c)
    \/ DestroyJoin(c)

FairSpec ==
    /\ Spec
    /\ \A w \in Workers : WF_vars(WorkerNext(w))
    /\ WF_vars(CallerReturns("c1"))

\* ====================================================== HeatSolver numerics
\* MaterialProperties as convert_ffi_material builds it: density, specific
\* heat and conductivity are copied unchecked, a phase parameter is Some only
\* when the caller passed a positive number
MaterialInputs ==
    [density : {-1, 0, 1}, specific_heat : {-1, 0, 1},
     thermal_conductivity : {1},
     melting_point : {None, Some(1)}, latent_heat_fusion : {Some(1), Some(2)},
     vaporization_point : {None, Some(1)},
     latent_heat_vaporization : {Some(1)}]

\* the parameter sets handed to HeatSolver::new
SolverInputs ==
    [height : {F(1)}, radius : {F(1)}, nr : {3}, nz : {3}, ntheta : {4},
     torches : {<<t>> : t \in TorchInputs}, total_time : {F(100)},
     time_step : {F(1)}, time_steps : 1..MaxSteps,
     zone_map : {None}, material_zones : {None},
     initial_temperature : {0, 2}, ambient_temperature : {0, 2},
     enable_convection : BOOLEAN, enable_radiation : BOOLEAN,
     enable_phase_changes : BOOLEAN, material : MaterialInputs]

\* MaterialProperties::get_density, get_specific_heat and
\* get_thermal_conductivity return the stored baseline value
get_density(m, temp) == F(m.density)

get_specific_heat(m, temp) == F(m.specific_heat)

get_thermal_conductivity(m, temp) == F(m.thermal_conductivity)

\* MaterialProperties::effective_specific_heat: the specific heat plus the
\* latent heat of a transition whose temperature the cell is at
effective_specific_heat(m, temp, dt) ==
    LET fusion == IF /\ m.melting_point # None /\ m.latent_heat_fusion # None
                     /\ temp = F(m.melting_point[1])
                  THEN F(m.latent_heat_fusion[1]) ELSE F(0)
        vaporization == IF /\ m.vaporization_point # None
                           /\ m.latent_heat_vaporization # None
                           /\ temp = F(m.vaporization_point[1])
                        THEN F(m.latent_heat_vaporization[1]) ELSE F(0)
    IN FAdd(FAdd(get_specific_heat(m, temp), fusion), vaporization)

\* CylindricalMesh: the node spacings, the radial coordinate of node i and the
\* volume of cell (i, j) divided by pi
MeshDr(p) == FDiv(p.radius, F(p.nr - 1))

MeshDz(p) == FDiv(p.height, F(p.nz - 1))

r_coords(p, i) == FMul(F(i), MeshDr(p))

cell_volumes(p, i, j) ==
    LET half == FDiv(MeshDr(p), F(2))
        r_in == IF i = 0 THEN F(0) ELSE FSub(r_coords(p, i), half)
        r_out == IF i = p.nr - 1 THEN p.radius
                 ELSE FAdd(r_coords(p, i), half)
        dz == IF j = 0 \/ j = p.nz - 1 THEN FDiv(MeshDz(p), F(2))
              ELSE MeshDz(p)
    IN FMul(FSub(FMul(r_out, r_out), FMul(r_in, r_in)), dz)

Cells(p) == (0..(p.nr - 1)) \X (0..(p.nz - 1))

\* the cells in the order of the `for i { for j {` loops
CellSeq(p) ==
    [n \in 1..(p.nr * p.nz) |-> <<(n - 1) \div p.nz, (n - 1) % p.nz>>]

Uniform(p, v) == [c \in Cells(p) |-> v]

\* the values calculate_radiation_source and calculate_convection_source
\* give to every cell in one step
RadiationInputs == {F(0), F(2)}

ConvectionInputs == {F(-1)}

\* HeatSources::new is zero everywhere and HeatSources::total adds the
\* radiation and the convection source
HeatSourcesTotal(p, radiation, convection) ==
    [c \in Cells(p) |-> FAdd(radiation[c], convection[c])]

\* a calculate_sources that computes both sources whatever the flags say
calculate_sources_IgnoreFlags(p, radiation, convection) ==
    HeatSourcesTotal(p, Uniform(p, radiation), Uniform(p, convection))

\* HeatSolver::calculate_sources: a source is computed only when enabled
calculate_sources(p, radiation, convection) ==
    HeatSourcesTotal(p,
        IF p.enable_radiation THEN Uniform(p, radiation) ELSE Uniform(p, F(0)),
        IF p.enable_convection THEN Uniform(p, convection)
        ELSE Uniform(p, F(0)))

\* HeatSolver::solve_time_step: the explicit update of every cell from the
\* field of the previous step; the function always returns Ok(())
solve_time_step(p, temperature, sources) ==
    LET dt == p.time_step
        dr == MeshDr(p)
        dz == MeshDz(p)
        t_amb == F(p.ambient_temperature)
        NewTemperature(i, j) ==
            LET temp == temperature[<<i, j>>]
                rho == get_density(p.material, temp)
                cp == get_specific_heat(p.material, temp)
                k == get_thermal_conductivity(p.material, temp)
                cp_eff == IF p.enable_phase_changes
                          THEN effective_specific_heat(p.material, temp, dt)
                          ELSE cp
                source == sources[<<i, j>>]
                t_left == temperature[<<i - 1, j>>]
                t_right == temperature[<<i + 1, j>>]
                t_down == temperature[<<i, j - 1>>]
                t_up == temperature[<<i, j + 1>>]
                dr2 == FMul(dr, dr)
                dz2 == FMul(dz, dz)
                radial ==
                    IF i = 0
                    THEN FDiv(FMul(FMul(F(2), k), FSub(t_right, temp)), dr2)
                    ELSE IF i = p.nr - 1
                    THEN FAdd(FDiv(FMul(k, FSub(t_left, temp)), dr2),
                              FDiv(FMul(FMul(F(2), k), FSub(t_amb, temp)), dr2))
                    ELSE FAdd(FDiv(FMul(k, FAdd(FSub(t_left,
                                                     FMul(F(2), temp)),
                                                t_right)), dr2),
                              FDiv(FMul(k, FSub(t_right, t_left)),
                                   FMul(FMul(F(2), r_coords(p, i)), dr)))
                axial ==
                    IF j = 0
                    THEN FAdd(FDiv(FMul(k, FSub(t_up, temp)), dz2),
                              FDiv(FMul(k, FSub(t_amb, temp)), dz2))
                    ELSE IF j = p.nz - 1
                    THEN FAdd(FDiv(FMul(k, FSub(t_down, temp)), dz2),
                              FDiv(FMul(k, FSub(t_amb, temp)), dz2))
                    ELSE FDiv(FMul(k, FAdd(FSub(t_down, FMul(F(2), temp)),
                                           t_up)), dz2)
                conduction_term == FAdd(FAdd(F(0), radial), axial)
            IN FAdd(temp, FDiv(FMul(dt, FAdd(conduction_term, source)),
                               FMul(rho, cp_eff)))
    IN [c \in Cells(p) |-> NewTemperature(c[1], c[2])]

\* a phase update that takes all the available energy and does not clamp
PhaseCell_Unlimited(p, c, temp, point, latent_heat, fraction) ==
    LET rho == get_density(p.material, temp)
        mass == FMul(rho, cell_volumes(p, c[1], c[2]))
        cp == get_specific_heat(p.material, temp)
        available_energy == FMul(FMul(mass, cp), FSub(temp, point))
        delta_fraction == FDiv(available_energy, FMul(mass, latent_heat))
    IN [fraction |-> FAdd(fraction, delta_fraction),
        used_energy |-> available_energy]

\* a phase update that accounts the available energy instead of the energy
\* it used
PhaseCell_EnergyAvailable(p, c, temp, point, latent_heat, fraction) ==
    LET rho == get_density(p.material, temp)
        mass == FMul(rho, cell_volumes(p, c[1], c[2]))
        energy_for_complete == FMul(FMul(mass, latent_heat),
                                    FSub(F(1), fraction))
        cp == get_specific_heat(p.material, temp)
        available_energy == FMul(FMul(mass, cp), FSub(temp, point))
        used_energy == FMin(available_energy, energy_for_complete)
        delta_fraction == FDiv(used_energy, FMul(mass, latent_heat))
    IN [fraction |-> FMin(FAdd(fraction, delta_fraction), F(1)),
        used_energy |-> available_energy]

\* update_phase_change_fractions, the body run for a cell whose temperature
\* is above the transition point and whose fraction is below 1: the new
\* fraction and the energy used
PhaseCell(p, c, temp, point, latent_heat, fraction) ==
    LET rho == get_density(p.material, temp)
        mass == FMul(rho, cell_volumes(p, c[1], c[2]))
        energy_for_complete == FMul(FMul(mass, latent_heat),
                                    FSub(F(1), fraction))
        cp == get_specific_heat(p.material, temp)
        available_energy == FMul(FMul(mass, cp), FSub(temp, point))
        used_energy == FMin(available_energy, energy_for_complete)
        delta_fraction == FDiv(used_energy, FMul(mass, latent_heat))
    IN [fraction |-> FMin(FAdd(fraction, delta_fraction), F(1)),
        used_energy |-> used_energy]

\* total_phase_change_energy += used_energy, cell after cell
RECURSIVE Accumulate(_, _, _, _)
Accumulate(energy, used, cells, n) ==
    IF n > Len(cells) THEN energy
    ELSE Accumulate(IF cells[n] \in DOMAIN used
                    THEN FAdd(energy, used[cells[n]]) ELSE energy,
                    used, cells, n + 1)

\* HeatSolver::update_phase_change_fractions on the solver sv: the melt
\* fractions first, then the vapor fractions of the cells that are fully
\* melted; the function always returns Ok(())
update_phase_change_fractions(sv) ==
    LET p == sv.params
        m == p.material
        zeros == Uniform(p, F(0))
        melts == m.melting_point # None /\ m.latent_heat_fusion # None
        melt0 == IF sv.melt_fraction = None THEN zeros
                 ELSE sv.melt_fraction[1]
        MeltCells == {c \in Cells(p) :
                        /\ melts
                        /\ FGt(sv.temperature[c], F(m.melting_point[1]))
                        /\ FLt(melt0[c], F(1))}
        melted == [c \in MeltCells |->
                      PhaseCell(p, c, sv.temperature[c],
                                F(m.melting_point[1]),
                                F(m.latent_heat_fusion[1]), melt0[c])]
        melt1 == [c \in Cells(p) |->
                     IF c \in MeltCells THEN melted[c].fraction ELSE melt0[c]]
        melt_fraction == IF melts THEN Some(melt1) ELSE sv.melt_fraction
        energy1 == Accumulate(sv.total_phase_change_energy,
                              [c \in MeltCells |-> melted[c].used_energy],
                              CellSeq(p), 1)
        vaporizes == /\ m.vaporization_point # None
                     /\ m.latent_heat_vaporization # None
        vapor0 == IF sv.vapor_fraction = None THEN zeros
                  ELSE sv.vapor_fraction[1]
        is_fully_melted(c) == IF melt_fraction # None
                              THEN FGe(melt_fraction[1][c], F(1))
                              ELSE TRUE
        VaporCells == {c \in Cells(p) :
                         /\ vaporizes
                         /\ FGt(sv.temperature[c], F(m.vaporization_point[1]))
                         /\ FLt(vapor0[c], F(1))
                         /\ is_fully_melted(c)}
        vaporized == [c \in VaporCells |->
                         PhaseCell(p, c, sv.temperature[c],
                                   F(m.vaporization_point[1]),
                                   F(m.latent_heat_vaporization[1]),
                                   vapor0[c])]
        vapor1 == [c \in Cells(p) |->
                      IF c \in VaporCells THEN vaporized[c].fraction
                      ELSE vapor0[c]]
    IN [sv EXCEPT
          !.melt_fraction = melt_fraction,
          !.vapor_fraction = IF vaporizes THEN Some(vapor1)
                             ELSE sv.vapor_fraction,
          !.total_phase_change_energy =
              Accumulate(energy1,
                         [c \in VaporCells |-> vaporized[c].used_energy],
                         CellSeq(p), 1)]

\* HeatSolver::new for parameters that validate() accepts: the uniform
\* initial field, history slice 0, and the phase arrays when phase changes
\* are enabled and the material has a transition point
NewSolver(p) ==
    LET phases == /\ p.enable_phase_changes
                  /\ \/ p.material.melting_point # None
                     \/ p.material.vaporization_point # None
        initial == Uniform(p, F(p.initial_temperature))
        fraction == IF phases THEN Some(Uniform(p, F(0))) ELSE None
    IN [params |-> p, temperature |-> initial,
        temperature_history |-> <<initial>>,
        melt_fraction |-> fraction,
        melt_fraction_history |-> IF phases THEN <<fraction[1]>> ELSE <<>>,
        vapor_fraction |-> fraction,
        vapor_fraction_history |-> IF phases THEN <<fraction[1]>> ELSE <<>>,
        total_phase_change_energy |-> F(0),
        current_step |-> 0, pc |-> "loop"]

\* the worker of a started lifecycle right after HeatSolver::new succeeded
SolverInit ==
    /\ \E p \in SolverInputs :
          /\ validate(p) = None
          /\ state = start(NewState(p)).state
          /\ solver = NewSolver(p)
    /\ mutex = [holder |-> NoHolder, poisoned |-> FALSE]
    /\ worker = [w \in Workers |-> Unborn]
    /\ callerPc = [c \in Callers |-> "idle"]
    /\ callerOp = [c \in Callers |-> "none"]
    /\ callerParams = [c \in Callers |-> None]
    /\ rc = [c \in Callers |-> 0]
    /\ seen = [c \in Callers |-> None]
    /\ handle = TRUE
    /\ cancel_requested = FALSE
    /\ LAST_ERROR = [c \in Callers |-> None]
    /\ buffer = [c \in Callers |-> None]
    /\ ptr = [c \in Callers |-> None]

\* an assign that writes the slice before the one asked for
assign_slice_Previous(history, k, field) ==
    [history EXCEPT ![k] = field]

\* slice_mut(s![.., .., k]).assign(field) on a history whose slices 0..k-1
\* have been written: the history keeps the slices written so far, so slice k
\* is appended when it is the next one and overwritten when it exists
assign_slice(history, k, field) ==
    IF k = Len(history) THEN Append(history, field)
    ELSE [history EXCEPT ![k + 1] = field]

\* the PhaseChangeInfo HeatSolver::run builds: present when phase changes are
\* enabled and a fraction history exists; an absent history is None
PhaseChangeInfo(sv) ==
    IF /\ sv.params.enable_phase_changes
       /\ \/ sv.melt_fraction_history # None
          \/ sv.vapor_fraction_history # None
    THEN Some([melt_fraction |-> sv.melt_fraction_history,
               vapor_fraction |-> sv.vapor_fraction_history,
               total_phase_change_energy |-> sv.total_phase_change_energy])
    ELSE None

\* results that carry SimulationParameters::new(1.0, 1.0, nr, nz) with the
\* step count instead of the parameters of the solver
SolverResults_FreshParameters(sv) ==
    [parameters |-> [sv.params EXCEPT !.torches = <<>>],
     slices |-> sv.params.time_steps + 1,
     temperature |-> sv.temperature_history,
     phase_change_info |-> PhaseChangeInfo(sv)]

\* the SimulationResults HeatSolver::run returns: clones of the parameters
\* and of the histories
SolverResults(sv) ==
    [parameters |-> sv.params,
     slices |-> sv.params.time_steps + 1,
     temperature |-> sv.temperature_history,
     phase_change_info |-> PhaseChangeInfo(sv)]

\* one iteration of the loop of HeatSolver::run: calculate_sources,
\* solve_time_step, update_phase_change_fractions when enabled, the history
\* slices step + 1, and the progress callback; solved and phased are the
\* solver after solve_time_step and after the phase update
SolverRunStep ==
    /\ solver.pc = "loop"
    /\ solver.current_step < solver.params.time_steps
    /\ \E radiation \in RadiationInputs, convection \in ConvectionInputs :
       \E solved \in {[solver EXCEPT
                          !.temperature =
                              solve_time_step(solver.params, solver.temperature,
                                  calculate_sources(solver.params, radiation,
                                                    convection))]} :
       \E phased \in {IF solver.params.enable_phase_changes
                      THEN update_phase_change_fractions(solved)
                      ELSE solved} :
          solver' = [phased EXCEPT
              !.temperature_history =
                  assign_slice(@, solver.current_step + 1, phased.temperature),
              !.melt_fraction_history =
                  IF phased.melt_fraction # None /\ @ # None
                  THEN assign_slice(@, solver.current_step + 1,
                                    phased.melt_fraction[1])
                  ELSE @,
              !.vapor_fraction_history =
                  IF phased.vapor_fraction # None /\ @ # None
                  THEN assign_slice(@, solver.current_step + 1,
                                    phased.vapor_fraction[1])
                  ELSE @,
              !.current_step = @ + 1]
    /\ state' = update_progress(state, StepProgress(solver.current_step,
                                                    solver.params.time_steps))
    /\ UNCHANGED <<mutex, worker, callerPc, callerOp, callerParams, rc, seen,
                   handle, cancel_requested, LAST_ERROR, buffer, ptr>>

\* the end of HeatSolver::run and of the worker: run returns Ok(results) with
\* the whole history, and the worker completes the lifecycle with it
SolverExit ==
    /\ solver.pc = "loop"
    /\ solver.current_step = solver.params.time_steps
    /\ solver' = [solver EXCEPT !.pc = "done"]
    /\ state' = complete(state, SolverResults(solver))
    /\ UNCHANGED <<mutex, worker, callerPc, callerOp, callerParams, rc, seen,
                   handle, cancel_requested, LAST_ERROR, buffer, ptr>>

\* history indices a caller asks generate_3d_temperature for (a usize)
SliceIndexInputs == 0..(MaxSteps + 1)

\* the index space (i, k, j) of the 3D array: nr x ntheta x nz
Cells3(p) == (0..(p.nr - 1)) \X (0..(p.ntheta - 1)) \X (0..(p.nz - 1))

\* SimulationResults::generate_3d_temperature on results r: the set of
\* outcomes the builds produce.  An index >= time_steps is rejected; the
\* message computes time_steps - 1, which for time_steps = 0 panics in a
\* build with overflow checks and wraps in one without.  Otherwise the slice
\* is replicated around the axis.
generate_3d_temperature(r, time_step) ==
    IF time_step >= r.parameters.time_steps
    THEN IF r.parameters.time_steps = 0
         THEN {[ok |-> FALSE, panic |-> TRUE, value |-> None],
               [ok |-> FALSE, panic |-> FALSE, value |-> None]}
         ELSE {[ok |-> FALSE, panic |-> FALSE, value |-> None]}
    ELSE {[ok |-> TRUE, panic |-> FALSE,
           value |-> Some([x \in Cells3(r.parameters) |->
                              r.temperature[time_step + 1][<<x[1], x[3]>>]])]}

\* caller c asks the results of the completed run for the 3D field of slice
\* time_step and receives the outcome
Generate3dTemperatureWith(c, time_step) ==
    /\ solver.pc = "done"
    /\ state.results # None
    /\ buffer[c] = None
    /\ \E outcome \in generate_3d_temperature(state.results[1], time_step) :
          buffer' = [buffer EXCEPT ![c] = Some(outcome)]
    /\ UNCHANGED <<state, mutex, worker, callerPc, callerOp, callerParams, rc,
                   seen, handle, cancel_requested, LAST_ERROR, ptr, solver>>

Generate3dTemperature(c) ==
    \E time_step \in SliceIndexInputs : Generate3dTemperatureWith(c, time_step)

SolverSpec ==
    SolverInit /\ [][\/ SolverRunStep
                     \/ SolverExit
                     \/ Generate3dTemperature("c1")]_vars

\* =============================================================== claims
\* the part of the lifecycle state the contracts speak about
Lifecycle(s) == <<s.status, s.progress, s.error_message, s.results>>

Alive(w) == worker[w].pc \in {"new", "step", "callback", "exit"}

\* C1: start(), reached through run(), succeeds only when the status is
\* NotStarted; in Running, Paused, Completed or Failed run() returns an error
\* and leaves status, progress, error message and results unchanged.
C1_StartOnlyFromNotStarted ==
    [][\A c \in Callers :
          (RunSimulationStart(c) /\ ~mutex.poisoned) =>
              IF state.status = NotStarted
              THEN rc'[c] = 0 /\ state'.status = Running
              ELSE rc'[c] < 0 /\ Lifecycle(state') = Lifecycle(state)]_vars

\* C2: once pause() has succeeded with a worker alive and resume() has been
\* called, the status eventually becomes Completed or Failed.
C2_ResumeLeadsToTermination ==
    (/\ state.status = Paused
     /\ \E w \in Workers : Alive(w) \/ worker[w].pc = "relock"
     /\ \E c \in Callers : callerPc[c] = "called" /\ callerOp[c] = "resume")
        ~> (state.status \in {Completed, Failed})

\* C3: every call of pause(), resume(), get_state() or
\* get_temperature_data() returns: a caller inside one of these entry points
\* eventually is outside it again.
C3_ControlCallsReturn ==
    \A c \in Callers :
        (/\ callerPc[c] = "called"
         /\ callerOp[c] \in {"pause", "resume", "get_state",
                             "get_temperature_data"})
            ~> (callerPc[c] = "idle")

\* C4: terminal states are absorbing: once the status is Completed or Failed
\* no step of a caller or a worker changes it.
C4_TerminalAbsorbing ==
    [][state.status \in {Completed, Failed} =>
          state'.status = state.status]_vars

\* C5: whenever the lifecycle mutex is free, results are present if and only
\* if the status is Completed.
C5_ResultsIffCompleted ==
    Free => ((state.results # None) <=> (state.status = Completed))

\* C6: the progress values of successive get_state observations of one
\* caller never decrease.
C6_ObservedProgressMonotonic ==
    [][\A c \in Callers :
          (seen[c] # None /\ seen'[c] # None) =>
              Leq(seen[c][1].progress, seen'[c][1].progress)]_vars

\* C7: whenever the lifecycle mutex is free, progress is 1.0 if and only if
\* the status is Completed.
C7_ProgressOneIffCompleted ==
    Free => ((state.progress = One) <=> (state.status = Completed))

\* C8: the status becomes Completed only in a step that starts in Running.
C8_CompletedOnlyFromRunning ==
    [][(state'.status = Completed /\ state.status # Completed) =>
          state.status = Running]_vars

\* C9: pause(), invoked under the lifecycle mutex, succeeds exactly when the
\* status is Running and then only changes the status to Paused; in every
\* other status (Paused included) pause_simulation returns the wrong-state
\* code -3 and the lifecycle state is unchanged.  When the mutex is poisoned
\* pause() is not invoked and nothing changes either.
C9_PauseContract ==
    [][\A c \in Callers :
          (PauseSimulation(c) /\ handle) =>
              IF mutex.poisoned
              THEN rc'[c] = -2 /\ state' = state
              ELSE IF state.status = Running
              THEN rc'[c] = 0 /\ state' = [state EXCEPT !.status = Paused]
              ELSE rc'[c] = -3 /\ state' = state]_vars

\* a second pause() issued while Paused has returned the wrong-state code
C9_Witness ==
    \E c \in Callers :
        /\ callerPc[c] = "idle" /\ callerOp[c] = "pause" /\ rc[c] = -3
        /\ state.status = Paused /\ ~mutex.poisoned

\* C10: resume(), invoked under the lifecycle mutex, succeeds exactly when
\* the status is Paused and then only changes the status to Running; in every
\* other status resume_simulation returns the wrong-state code -3 and the
\* lifecycle state is unchanged.  When the mutex is poisoned resume() is not
\* invoked and nothing changes either.
C10_ResumeContract ==
    [][\A c \in Callers :
          (ResumeSimulation(c) /\ handle) =>
              IF mutex.poisoned
              THEN rc'[c] = -2 /\ state' = state
              ELSE IF state.status = Paused
              THEN rc'[c] = 0 /\ state' = [state EXCEPT !.status = Running]
              ELSE rc'[c] = -3 /\ state' = state]_vars

\* resume() has succeeded on a paused simulation whose worker is still alive
C10_Witness ==
    \E c \in Callers :
        /\ callerPc[c] = "idle" /\ callerOp[c] = "resume" /\ rc[c] = 0
        /\ state.status = Running
        /\ \E w \in Workers : Alive(w)

\* the slice indices of a complete run of N steps, in writing order
FullHistory(N) == [i \in 1..(N + 1) |-> i - 1]

\* worker threads that have not ended: running or blocked
Threads == {w \in Workers : Alive(w) \/ worker[w].pc \in {"relock", "deadlocked"}}

\* C11: while the status is and stays Paused, a worker that finishes its
\* progress report does not go on to another solver step: after pause() has
\* returned, at most the step in progress is finished.
C11_NoStepWhilePaused ==
    [][\A w \in Workers :
          (WorkerCallback(w) /\ state.status = Paused /\ state'.status = Paused)
              => worker'[w].pc # "step"]_vars

\* C12: pausing and resuming does not change what is computed: a worker that
\* is held in its progress report by a pause, with resume() called, ends its
\* run having written the slices 0..N once each and in order, as an unpaused
\* run does.
C12_PauseResumeFidelity ==
    \A w \in Workers :
        (/\ worker[w].pc = "relock"
         /\ callerPc["c1"] = "called" /\ callerOp["c1"] = "resume")
            ~> (/\ worker[w].pc = "done"
                /\ worker[w].history =
                       FullHistory(worker[w].params[1].time_steps))

\* C13: at most one worker thread is alive per lifecycle.
C13_AtMostOneWorker ==
    Cardinality(Threads) <= 1

\* C14: the parameters the worker is spawned with are the shared parameters
\* at the moment run() sets the status to Running: no configuration change
\* that succeeded before that moment is missing from them.
C14_SnapshotAtStart ==
    [][\A c \in Callers :
          (RunSimulationStart(c) /\ state'.status = Running /\ rc'[c] = 0)
              => callerParams[c] = Some(state.parameters)]_vars

\* the messages of the not-initialized branches
NotInitialized ==
    {Some("Simulation not initialized."),
     Some("Simulation not initialized. Call initialize_simulation first.")}

\* destroy() has taken the handle and has returned
Destroyed ==
    /\ ~handle /\ cancel_requested
    /\ \A c \in Callers : ~(callerOp[c] = "destroy" /\ callerPc[c] = "join")

\* C15: the shared parameters change only while the status is NotStarted:
\* in every other status no step changes them, and add_torch and
\* set_material return the cannot-modify code -3 and leave the lifecycle
\* state unchanged.
C15_ParametersFrozenAfterStart ==
    [][/\ state.status # NotStarted => state'.parameters = state.parameters
       /\ \A c \in Callers :
             (/\ AddPlasmaTorch(c) \/ SetMaterialProperties(c)
              /\ handle /\ ~mutex.poisoned /\ state.status # NotStarted)
                 => rc'[c] = -3 /\ state' = state]_vars

\* add_torch has been refused on a running simulation
C15_Witness ==
    /\ callerPc["c1"] = "idle" /\ callerOp["c1"] = "add_torch"
    /\ rc["c1"] = -3 /\ state.status = Running

\* C16: initialize called with a non-null record of valid scalars while no
\* handle exists returns 0 and installs a lifecycle in status NotStarted.
C16_InitializeSucceeds ==
    [][\A c \in Callers :
          (InitializeSimulationWith(c, Some(ValidScalars)) /\ ~handle)
              => rc'[c] = 0 /\ handle' /\ state'.status = NotStarted]_vars

\* C17: initialize called with a non-null record while a handle exists
\* returns the already-initialized code -2, stores the already-initialized
\* message as the last error of the calling thread and leaves the handle and
\* the lifecycle state as they were.
C17_InitializeTwice ==
    [][\A c \in Callers : \A ffi_params \in FFIParameterInputs \ {None} :
          (InitializeSimulationWith(c, ffi_params) /\ handle)
              => /\ rc'[c] = -2
                 /\ LAST_ERROR'[c] =
                       Some("Simulation already initialized. Call destroy_simulation first.")
                 /\ handle' /\ state' = state /\ worker' = worker]_vars

\* initialize has been refused on a lifecycle whose worker is running
C17_Witness ==
    /\ callerPc["c1"] = "idle" /\ callerOp["c1"] = "initialize"
    /\ rc["c1"] = -2 /\ handle /\ state.status = Running

C19_HandleEmptyAfterDestroy ==
    [][\A c \in Callers :
          /\ ((DestroyTake(c) \/ DestroyJoin(c)) /\ callerPc'[c] = "idle")
                => ~handle'
          /\ ~handle =>
                /\ InitializeSimulation(c) => rc'[c] # -2
                /\ RunSimulationClone(c) \/ PauseSimulation(c)
                      \/ ResumeSimulation(c)
                      => rc'[c] = -1 /\ LAST_ERROR'[c] \in NotInitialized
                /\ GetSimulationState(c) \/ GetTemperatureData(c)
                      \/ AddPlasmaTorch(c) \/ SetMaterialProperties(c)
                      => rc'[c] = -2 /\ LAST_ERROR'[c] \in NotInitialized
                /\ DestroyTake(c) => rc'[c] = -1 /\ callerPc'[c] = "idle"
                /\ CallerNext(c) =>
                      UNCHANGED <<state, mutex, worker, handle,
                                  cancel_requested, seen>>]_vars

\* a second destroy() has returned the error after a first one took the handle
C19_Witness ==
    /\ callerPc["c1"] = "idle" /\ callerOp["c1"] = "destroy" /\ rc["c1"] = -1
    /\ ~handle /\ cancel_requested

\* C20: after cancellation has been requested, a worker stops at its next
\* observation: the progress report it finishes does not lead to another
\* step, and the status becomes Cancelled.
C20_CancelStopsWorker ==
    [][\A w \in Workers :
          (WorkerCallback(w) /\ cancel_requested)
              => worker'[w].pc # "step" /\ state'.status = "Cancelled"]_vars


\* ------------------------------------------------------------------ C21
\* C21: on a Completed simulation, get_temperature_data(step, buf, cap) with
\* cap >= Nr * Nz succeeds for every step in [0, N]: it returns Nr * Nz and
\* the buffer then holds slice `step` of the history (slice 0 is the initial
\* field)
C21_TemperatureDataSucceeds ==
    [][\A c \in Callers, k \in TimeStepInputs, cap \in BufferSizeInputs :
         ( /\ GetTemperatureDataWith(c, k, cap)
           /\ handle /\ ~mutex.poisoned
           /\ state.status = Completed
           /\ k \in 0..state.parameters.time_steps
           /\ cap >= state.parameters.nr * state.parameters.nz )
         => /\ rc'[c] = state.parameters.nr * state.parameters.nz
            /\ buffer'[c] = Some(k)]_vars

\* ------------------------------------------------------------------ C22
\* C22: get_temperature_data returns a negative code and writes nothing into
\* the caller's buffer whenever the status is not Completed, the step is
\* outside the stored history 0..N, or the capacity is below Nr * Nz
C22_TemperatureDataRejects ==
    [][\A c \in Callers, k \in TimeStepInputs, cap \in BufferSizeInputs :
         ( /\ GetTemperatureDataWith(c, k, cap)
           /\ handle
           /\ \/ state.status # Completed
              \/ k \notin 0..state.parameters.time_steps
              \/ cap < state.parameters.nr * state.parameters.nz )
         => /\ rc'[c] < 0
            /\ buffer' = buffer]_vars

\* a call on a Completed lifecycle with a step outside the history has been
\* rejected, and one on a lifecycle that is not Completed as well
C22_Witness ==
    /\ callerPc["c1"] = "idle" /\ callerOp["c1"] = "get_temperature_data"
    /\ handle /\ ~mutex.poisoned
    /\ state.status = Completed
    /\ rc["c1"] = -9
    /\ buffer["c1"] = None


\* ------------------------------------------------------------------ C25
\* the torch breaks a parameter invariant of p: its position lies outside
\* [0, radius] x [0, height] or its id is that of a torch already present
TorchViolatesInvariants(p, torch) ==
    \/ FLt(torch.r_position, F(0)) \/ FGt(torch.r_position, p.radius)
    \/ FLt(torch.z_position, F(0)) \/ FGt(torch.z_position, p.height)
    \/ \E i \in 1..Len(p.torches) : p.torches[i].id = torch.id

\* C25: an add_torch whose torch violates the parameter invariants returns
\* an error and leaves the stored parameters unchanged, and the status never
\* becomes Running while the parameters fail validation
C25_InvalidTorchRejected ==
    [][ /\ \A c \in Callers, torch \in TorchInputs :
             ( /\ AddPlasmaTorchWith(c, torch)
               /\ TorchViolatesInvariants(state.parameters, torch) )
             => /\ rc'[c] < 0
                /\ state'.parameters = state.parameters
        /\ (state.status # Running /\ state'.status = Running)
             => validate(state'.parameters) = None ]_vars


C23_ReadClearsError ==
    [][\A c \in Callers :
         (GetLastError(c) /\ ptr'[c] # None)
         => /\ LAST_ERROR'[c] = None
            /\ (handle' /\ ~mutex'.poisoned) => state'.error_message = None]_vars

\* ------------------------------------------------------------------ C24
\* the control operations that return an integer code
CodeOps == {"run", "pause", "resume", "add_torch", "set_material", "get_state"}

\* C24: every boundary operation that reports a failure, by a negative code
\* or by a null string, has stored a last-error message describing that
\* failure, so that a get_last_error right after it returns a message of
\* that call
C24_FailureStoresMessage ==
    [][\A c \in Callers :
         /\ ( /\ callerOp[c] \in CodeOps
              /\ callerPc[c] # "idle" /\ callerPc'[c] = "idle"
              /\ rc'[c] < 0 )
            => LAST_ERROR'[c] # None
         /\ (GetFormulaJson(c) /\ ptr'[c] = None)
            => LAST_ERROR'[c] \in {Some(m) : m \in FormulaJsonMessages}]_vars

\* ------------------------------------------------------------------ C27
\* the control operations that change the lifecycle
MutatingOps == {"add_torch", "set_material", "run", "pause", "resume"}

\* C27: once the mutex is poisoned, every mutating control operation returns
\* an error and changes nothing, while get_state still returns the state of
\* the lifecycle and get_last_error still returns its error message
C27_PoisonedStillReadable ==
    [][\A c \in Callers :
         (handle /\ mutex.poisoned)
         => /\ ( /\ callerOp[c] \in MutatingOps
                 /\ callerPc[c] # "idle" /\ callerPc'[c] = "idle" )
               => (rc'[c] < 0 /\ state' = state)
            /\ GetSimulationState(c)
               => /\ rc'[c] = 0
                  /\ seen'[c] = Some(convert_simulation_state(state))
            /\ (GetLastError(c) /\ LAST_ERROR[c] = None)
               => ptr'[c] = state.error_message]_vars


\* ------------------------------------------------------------------ C26
\* every cell of every slice of the history h is a finite number
HistoryFinite(h) ==
    \A n \in 1..Len(h) : \A c \in DOMAIN h[n] : IsFinite(h[n][c])

\* C26: when a solver step produces a non-finite temperature the run stops
\* there (no later slice is written), the lifecycle ends Failed with the
\* message "numerical instability at step n", and the status is never
\* Completed with a history that contains a non-finite value
C26_NonFiniteFails ==
    /\ \A n \in 1..Len(solver.temperature_history) :
          ~HistoryFinite(<<solver.temperature_history[n]>>)
          => /\ n = Len(solver.temperature_history)
             /\ solver.pc = "done"
                => /\ state.status = Failed
                   /\ state.error_message =
                          Some("numerical instability at step n")
    /\ state.status = Completed
       => HistoryFinite(state.results[1].temperature)


\* ------------------------------------------------------------------ C29
\* the step from solver sv to solver nx keeps every phase fraction within
\* [0, 1], lowers no fraction and does not lower the phase-change energy
PhaseStepOk(sv, nx) ==
    /\ nx.melt_fraction # None
       => \A c \in Cells(sv.params) :
             /\ FGe(nx.melt_fraction[1][c], F(0))
             /\ FGe(F(1), nx.melt_fraction[1][c])
             /\ sv.melt_fraction # None
                => FGe(nx.melt_fraction[1][c], sv.melt_fraction[1][c])
    /\ nx.vapor_fraction # None
       => \A c \in Cells(sv.params) :
             /\ FGe(nx.vapor_fraction[1][c], F(0))
             /\ FGe(F(1), nx.vapor_fraction[1][c])
             /\ sv.vapor_fraction # None
                => FGe(nx.vapor_fraction[1][c], sv.vapor_fraction[1][c])
    /\ FGe(nx.total_phase_change_energy, sv.total_phase_change_energy)

\* C29: over any run with phase changes enabled, after every step every melt
\* and vapor fraction lies in [0, 1], no fraction of a cell has decreased,
\* and the accumulated phase-change energy has not decreased
C29_PhaseFractionsBounded ==
    [][solver.params.enable_phase_changes
       => PhaseStepOk(solver, solver')]_vars

\* C29 for a material whose density and specific heat are positive
C29_PhaseFractionsBoundedPositive ==
    [][( /\ solver.params.enable_phase_changes
         /\ solver.params.material.density > 0
         /\ solver.params.material.specific_heat > 0 )
       => PhaseStepOk(solver, solver')]_vars

\* a run on such a material has melted a cell partly, has melted a cell
\* completely and has begun to vaporize it
C29_Witness ==
    /\ solver.params.enable_phase_changes
    /\ solver.params.material.density > 0
    /\ solver.params.material.specific_heat > 0
    /\ solver.melt_fraction # None /\ solver.vapor_fraction # None
    /\ Len(solver.melt_fraction_history) > 2
    /\ \E c \in Cells(solver.params) :
          /\ FGt(solver.melt_fraction_history[2][c], F(0))
          /\ FLt(solver.melt_fraction_history[2][c], F(1))
          /\ solver.melt_fraction[1][c] = F(1)
    /\ \E c \in Cells(solver.params) :
          FGt(solver.vapor_fraction[1][c], F(0))
    /\ FGt(solver.total_phase_change_energy, F(0))


\* ------------------------------------------------------------------ C30
\* convection and radiation are disabled and the ambient temperature is the
\* initial temperature
NoSourceAtAmbient(p) ==
    /\ ~p.enable_convection /\ ~p.enable_radiation
    /\ p.ambient_temperature = p.initial_temperature

\* every cell of every slice written so far holds the initial temperature
HistoryAtInitial(sv) ==
    \A n \in 1..Len(sv.temperature_history) :
        \A c \in Cells(sv.params) :
            sv.temperature_history[n][c] = F(sv.params.initial_temperature)

\* the divisor rho * cp_eff of the update of a cell at temperature temp
HeatCapacity(p, temp) ==
    FMul(get_density(p.material, temp),
         IF p.enable_phase_changes
         THEN effective_specific_heat(p.material, temp, p.time_step)
         ELSE get_specific_heat(p.material, temp))

C31_PhaseHistoriesMatchMaterial ==
    state.status = Completed =>
        LET p == solver.params
            info == state.results[1].phase_change_info
        IN /\ (info # None /\ info[1].melt_fraction # None)
              <=> (p.enable_phase_changes /\ p.material.melting_point # None)
           /\ (info # None /\ info[1].vapor_fraction # None)
              <=> ( /\ p.enable_phase_changes
                    /\ p.material.vaporization_point # None )
           /\ ( \/ ~p.enable_phase_changes
                \/ /\ p.material.melting_point = None
                   /\ p.material.vaporization_point = None )
              => info = None


\* ------------------------------------------------------------------ C32
\* C32: a solver run does not modify its parameters, and the parameters
\* stored in the results the run returns are equal, field by field, to the
\* parameters the solver was constructed with
C32_ParametersPreserved ==
    [][/\ solver'.params = solver.params
       /\ (state.status # Completed /\ state'.status = Completed)
          => /\ state'.results[1].parameters = solver.params
             /\ \A f \in DOMAIN solver.params :
                   state'.results[1].parameters[f] = solver.params[f]]_vars

\* a run of more than one step with a torch has completed and its results
\* hold the parameters of the solver
C32_Witness ==
    /\ solver.pc = "done" /\ state.status = Completed
    /\ solver.current_step > 1
    /\ Len(solver.params.torches) > 0
    /\ state.results[1].parameters = solver.params


\* ------------------------------------------------------------------ C33
\* the step from solver sv to solver nx wrote the fields of nx to slice
\* sv.current_step + 1 of the histories
SliceWritten(sv, nx) ==
    LET k == sv.current_step + 2
    IN /\ Len(nx.temperature_history) = k
       /\ nx.temperature_history[k] = nx.temperature
       /\ nx.melt_fraction # None
          => /\ Len(nx.melt_fraction_history) = k
             /\ nx.melt_fraction_history[k] = nx.melt_fraction[1]
       /\ nx.vapor_fraction # None
          => /\ Len(nx.vapor_fraction_history) = k
             /\ nx.vapor_fraction_history[k] = nx.vapor_fraction[1]

\* every slice of history h is the same slice of history g
SlicesKept(h, g) ==
    /\ Len(g) >= Len(h)
    /\ \A k \in 1..Len(h) : g[k] = h[k]

\* C33: slice 0 of the temperature history is the initial field before and
\* after every step, after step n slice n + 1 of each history is the current
\* field, and no step changes a slice an earlier step wrote
C33_HistoryAccumulates ==
    [][/\ solver.temperature_history[1] =
             Uniform(solver.params, F(solver.params.initial_temperature))
       /\ solver'.temperature_history[1] =
             Uniform(solver.params, F(solver.params.initial_temperature))
       /\ solver'.current_step = solver.current_step + 1
          => SliceWritten(solver, solver')
       /\ SlicesKept(solver.temperature_history,
                     solver'.temperature_history)
       /\ SlicesKept(solver.melt_fraction_history,
                     solver'.melt_fraction_history)
       /\ SlicesKept(solver.vapor_fraction_history,
                     solver'.vapor_fraction_history)]_vars

\* a run has written three different temperature slices and a melt-fraction
\* slice that differs from slice 0
C33_Witness ==
    /\ solver.current_step = 2
    /\ Len(solver.temperature_history) = 3
    /\ solver.temperature_history[3] = solver.temperature
    /\ solver.temperature_history[2] # solver.temperature_history[1]
    /\ solver.temperature_history[3] # solver.temperature_history[2]
    /\ solver.melt_fraction # None
    /\ solver.melt_fraction_history[3] # solver.melt_fraction_history[1]


\* ------------------------------------------------------------------ C34
\* in the step from solver sv to solver nx, cell c is above the vaporization
\* point with a vapor fraction below 1 when the phase update runs
VaporCandidate(sv, nx, c) ==
    /\ sv.params.enable_phase_changes
    /\ sv.params.material.vaporization_point # None
    /\ sv.vapor_fraction # None /\ nx.vapor_fraction # None
    /\ FGt(nx.temperature[c], F(sv.params.material.vaporization_point[1]))
    /\ FLt(sv.vapor_fraction[1][c], F(1))

\* the material has no melting point or cell c is fully melted in nx
MeltedOrNoMeltingPoint(nx, c) ==
    \/ nx.params.material.melting_point = None
    \/ /\ nx.melt_fraction # None
       /\ nx.melt_fraction[1][c] = F(1)

\* C34: in the phase-change update of a material with positive density and
\* specific heat, a cell with T > T_v and vapor fraction < 1 has its vapor
\* fraction advanced exactly when the material has no melting point or the
\* melt fraction of the cell is 1; for a material with a vaporization point
\* and no melting point the vapor fraction of such a cell increases
C34_VaporAdvances ==
    [][( /\ solver'.current_step = solver.current_step + 1
         /\ solver.params.material.density > 0
         /\ solver.params.material.specific_heat > 0 )
       => \A c \in Cells(solver.params) :
             VaporCandidate(solver, solver', c)
             => /\ (solver'.vapor_fraction[1][c] # solver.vapor_fraction[1][c])
                   <=> MeltedOrNoMeltingPoint(solver', c)
                /\ solver.params.material.melting_point = None
                   => FGt(solver'.vapor_fraction[1][c],
                          solver.vapor_fraction[1][c])]_vars


\* ------------------------------------------------------------------ C35
\* the sum of f over the cells, in the order of the loops
RECURSIVE SumCells(_, _, _)
SumCells(f, cells, n) ==
    IF n > Len(cells) THEN F(0)
    ELSE FAdd(f[cells[n]], SumCells(f, cells, n + 1))

\* latent heat L times the fraction of cell c, 0 when the array or the latent
\* heat is absent
LatentTerm(latent_heat, fraction, c) ==
    IF latent_heat = None \/ fraction = None THEN F(0)
    ELSE FMul(F(latent_heat[1]), fraction[1][c])

\* the sum over the cells of mass * (L_f * melt fraction + L_v * vapor
\* fraction), the mass of a cell being density times cell volume
LatentEnergy(sv) ==
    SumCells([c \in Cells(sv.params) |->
                 FMul(FMul(get_density(sv.params.material, F(0)),
                           cell_volumes(sv.params, c[1], c[2])),
                      FAdd(LatentTerm(sv.params.material.latent_heat_fusion,
                                      sv.melt_fraction, c),
                           LatentTerm(
                               sv.params.material.latent_heat_vaporization,
                               sv.vapor_fraction, c)))],
             CellSeq(sv.params), 1)

C37_Generate3dTemperature ==
    [][\A k \in SliceIndexInputs :
          Generate3dTemperatureWith("c1", k)
          => LET r == state.results[1]
                 out == buffer'["c1"][1]
             IN IF k <= r.parameters.time_steps
                THEN /\ out.ok
                     /\ \A x \in Cells3(r.parameters) :
                           out.value[1][x] =
                               solver.temperature_history[k + 1][<<x[1], x[3]>>]
                ELSE ~out.ok /\ ~out.panic]_vars


\* ------------------------------------------------------------------ C39
\* worker w holds the lifecycle mutex and is requesting it again, or is
\* blocked on that request
RequestsHeldMutex(w) ==
    /\ mutex.holder = w
    /\ worker[w].pc \in {"relock", "deadlocked"}

\* C39: no thread requests the lifecycle mutex while it holds it, and no
\* reachable state has the worker blocked on the mutex it holds itself
C39_NoSelfDeadlock ==
    \A w \in Workers : ~RequestsHeldMutex(w)


\* ------------------------------------------------------------------ C36
\* the invariants of a parameter set: positive height, radius, time step and
\* total time, Nr >= 2, Nz >= 2, Ntheta >= 4, a non-empty torch list, every
\* torch within [0, R] x [0, H], no two torches with one id, and every zone
\* index of a zone map smaller than the number of material zones
ListedInvariants(p) ==
    /\ FGt(p.height, F(0)) /\ FGt(p.radius, F(0))
    /\ FGt(p.time_step, F(0)) /\ FGt(p.total_time, F(0))
    /\ p.nr >= 2 /\ p.nz >= 2 /\ p.ntheta >= 4
    /\ Len(p.torches) > 0
    /\ \A i \in 1..Len(p.torches) :
          /\ FGe(p.torches[i].r_position, F(0))
          /\ FLe(p.torches[i].r_position, p.radius)
          /\ FGe(p.torches[i].z_position, F(0))
          /\ FLe(p.torches[i].z_position, p.height)
    /\ ~HasDuplicateId(p.torches)
    /\ p.zone_map # None
       => \A n \in 1..Len(p.zone_map[1]) :
             p.zone_map[1][n] < (IF p.material_zones = None THEN 0
                                 ELSE Len(p.material_zones[1]))

\* C36: validate() accepts a parameter set if and only if all the listed
\* invariants hold: HeatSolver::new lets the worker into the run exactly on
\* such a set
C36_ValidateIffInvariants ==
    [][\A w \in Workers :
          (worker[w].pc = "new" /\ worker'[w].pc # "new")
          => ((worker'[w].pc # "done")
                 <=> ListedInvariants(worker[w].params[1]))]_vars


\* ------------------------------------------------------------------ C38
\* boundary record f has a count that is not positive
NonPositiveCount(f) == f.nr <= 0 \/ f.nz <= 0 \/ f.time_steps <= 0

\* C38: the parameters converted from a boundary record with a non-positive
\* nr, nz or time_steps never pass validation, even with a valid torch list
C38_NonPositiveCountRejected ==
    [][\A w \in Workers : \A f \in FFICountInputs :
          ( /\ NonPositiveCount(f)
            /\ worker[w].pc = "new"
            /\ worker[w].params = Some(ConvertedParameters(f, <<InsideTorch>>))
            /\ worker'[w].pc # "new" )
          => worker'[w].pc = "done" /\ state'.status = Failed]_vars


\* ------------------------------------------------------------------ C40
\* a step of thread d that reads or writes SIMULATION_STATE inside
\* initialize_simulation or destroy_simulation
AccessesHandle(d) ==
    \/ InitializeSimulationCheck(d)
    \/ InitializeSimulationInstall(d)
    \/ DestroyTake(d)

\* C40: when two threads call initialize concurrently with no handle
\* present, the check for an existing handle and the installation of the new
\* one are not separated by an initialize or destroy step of the other
\* thread, and the call that found no handle and carries a valid record
\* returns success with its lifecycle installed.
C40_InitializeAtomic ==
    [][\A c \in Callers :
          /\ callerPc[c] = "checked"
                => \A d \in Callers \ {c} : ~AccessesHandle(d)
          /\ (InitializeSimulationInstall(c) /\ callerParams[c] = Some(ValidScalars))
                => rc'[c] = 0 /\ handle']_vars

====
